---- MODULE Spec2Model ----
(***************************************************************************)
(* Model of the multi-armed-bandit allocation service: the warehouse       *)
(* tables (experiments, variants, raw_metrics, daily_metrics,              *)
(* allocation_history), metric ingestion (ExperimentService.record_metrics *)
(* over MetricsRepository.insert_metrics), the aggregation query, the      *)
(* allocation orchestrator with the Thompson sampling engine, experiment   *)
(* creation, the history route, the rate limiter inside the middleware     *)
(* stack and the daily allocation limit.                                   *)
(*                                                                         *)
(* Percentages are carried in hundredths of a percent point (the unit of   *)
(* round(x, 2)): 10000 stands for 100.00.  Dates are day numbers.          *)
(***************************************************************************)
EXTENDS Integers, Sequences, FiniteSets, TLC

(***************************************************************************)
(* Settings (src/config.py)                                                *)
(***************************************************************************)
default_window_days == 14
max_window_days == 30
min_impressions == 200
prior_alpha == 1
prior_beta == 99

(***************************************************************************)
(* Bounds of the model                                                     *)
(***************************************************************************)
\* settings.thompson_samples, scaled down (10000 in src/config.py)
ThompsonSamples == 3
\* number of insert_metrics calls (uuid pairs drawn) in one behaviour
MaxInserts == 2
\* days the clock may advance past Day0
MaxDayShift == 1
\* number of ExperimentRepository.create_experiment calls in one behaviour
MaxCreates == 2

\* the day the behaviour starts on; dates are day numbers relative to it
Day0 == 1 - 1
\* SQL NULL in a numeric column; a stored number n is <<n>>
SqlNull == <<>>
NULL == "NULL"
\* window_days absent from the query string (None); the route requires >= 1
NoWindow == 0
Procs == {"p1", "p2"}

\* alphabetical order of the variant names in use (ORDER BY name)
NameOrder == <<"control", "variant_a", "variant_b">>
NameRank(n) == CHOOSE i \in 1..Len(NameOrder) : NameOrder[i] = n

\* experiment ids in request paths; "e404" is not stored
ExperimentIds == {"e1", "e404"}
AllocationIds == {"e1", "e2", "e404"}
VariantNames == {"control", "variant_a", "ghost"}
\* the date a caller reports metrics for: on Day0 the oldest day of the
\* default window
MetricDates == {Day0 - 14}
\* validated MetricInput payloads: 0 <= clicks <= impressions, sessions >= 0,
\* revenue >= 0 (revenue in cents)
MetricCounts ==
  { [impressions |-> 150, clicks |-> 3, sessions |-> 10, revenue |-> 5],
    [impressions |-> 250, clicks |-> 5, sessions |-> 20, revenue |-> 0] }
MetricInputs ==
  { [variant_name |-> n, impressions |-> c.impressions, clicks |-> c.clicks,
     sessions |-> c.sessions, revenue |-> c.revenue] :
       n \in VariantNames, c \in MetricCounts }
\* payloads MetricInput rejects: clicks above impressions, a negative count
InvalidMetricInputs ==
  { [variant_name |-> "control", impressions |-> 100, clicks |-> 150,
     sessions |-> 10, revenue |-> 0],
    [variant_name |-> "control", impressions |-> 0 - 1, clicks |-> 0 - 1,
     sessions |-> 10, revenue |-> 0] }
\* MetricsBatchRequest.metrics (min_length 1): one entry, or a control entry
\* followed by a second entry
Batches ==
  { <<m>> : m \in MetricInputs \cup InvalidMetricInputs } \cup
  { <<a, b>> : a \in {m \in MetricInputs : m.variant_name = "control"},
               b \in {m \in MetricInputs : m.variant_name # "control"} }
\* uuid.uuid4() values of the create_experiment calls: the experiment id of
\* the c-th call and the ids of its variants
ExperimentUuids == <<"e3", "e4", "e5", "e6">>
VariantUuids ==
  << <<"v6", "v7">>, <<"v8", "v9">>, <<"v10", "v11">>, <<"v12", "v13">> >>
\* POST /experiments bodies: a new name and a stored name with two valid
\* variants, and bodies with one variant, without a control, and with a
\* variant name used twice
ExperimentCreates ==
  { [name |-> "checkout_test", optimization_target |-> "ctr",
     variants |-> << [name |-> "control", is_control |-> TRUE],
                     [name |-> "variant_a", is_control |-> FALSE] >>],
    [name |-> "homepage_cta_test", optimization_target |-> "ctr",
     variants |-> << [name |-> "control", is_control |-> TRUE],
                     [name |-> "variant_a", is_control |-> FALSE] >>],
    [name |-> "checkout_test", optimization_target |-> "ctr",
     variants |-> << [name |-> "control", is_control |-> TRUE] >>],
    [name |-> "checkout_test", optimization_target |-> "ctr",
     variants |-> << [name |-> "variant_a", is_control |-> FALSE],
                     [name |-> "variant_b", is_control |-> FALSE] >>],
    [name |-> "checkout_test", optimization_target |-> "ctr",
     variants |-> << [name |-> "control", is_control |-> TRUE],
                     [name |-> "control", is_control |-> FALSE] >>] }
\* window_days query parameter: absent, or 1..90
WindowInputs == {NoWindow, 7, 45}
\* GET /experiments/{id}/allocation requests: every window for the experiment
\* that has metrics, the default window for the others
AllocationRequests ==
  { <<"e1", w>> : w \in WindowInputs } \cup
  { <<e, NoWindow>> : e \in AllocationIds }

VARIABLES
  today,                \* CURRENT_DATE() of the warehouse / date.today()
  experiments,          \* table experiments
  variants,             \* table variants
  raw_metrics,          \* table raw_metrics (committed rows)
  daily_metrics,        \* table daily_metrics (committed rows)
  allocation_history,   \* table allocation_history (committed rows)
  allocation_history_details,
  autocommit,           \* AUTOCOMMIT parameter of the warehouse sessions
  uuid_counter,         \* uuid.uuid4() draws so far
  pc,                   \* position of each request handler
  req,                  \* the record_metrics call each handler is serving
  tx,                   \* uncommitted writes of each handler's connection
  lock,                 \* holder of the DML lock on daily_metrics
  resp,                 \* last record_metrics response of each handler
  alloc_resp,           \* last response of GET /experiments/{id}/allocation
  history_resp,         \* last response of GET /experiments/{id}/history
  np_random,            \* numpy's process-global generator, which
                        \* stats.beta.rvs draws from
  daily_allocation_limit,  \* daily_allocation_limit._calls: day -> count
  clock,                \* time.time(), in ticks
  rate_limiter,         \* rate_limiter._requests: key -> list of (ts, count)
  mw_pc,                \* position of each request in the middleware stack
  mw_req,               \* the request each handler has passed to call_next
  http_resp             \* last HTTP response the application sent

dbvars == <<experiments, variants, raw_metrics, daily_metrics,
            allocation_history, allocation_history_details, autocommit>>
procvars == <<pc, req, tx, lock, resp, uuid_counter>>
mwvars == <<clock, rate_limiter, mw_pc, mw_req, http_resp>>
apivars == <<history_resp, np_random, daily_allocation_limit>>
vars == <<today, dbvars, procvars, alloc_resp, apivars, mwvars>>

NoReq == [experiment_id |-> NULL]
\* rows staged by the open transaction: raw holds at most the inserted row
NoTx == [raw |-> {}, daily |-> NULL]
NoResp == [status |-> 0]
\* numpy's global RandomState as the process starts: seeded from the
\* operating system, nothing drawn yet.  A state of the generator is
\* identified by the batch of variates it produced last.
Unseeded == <<>>
\* DailyAllocationLimit.__init__: _calls = {}
NoCalls == [d \in {} |-> 0]

InitService ==
  /\ history_resp = NoResp
  /\ np_random = Unseeded
  /\ daily_allocation_limit = NoCalls

(***************************************************************************)
(* Generic helpers                                                         *)
(***************************************************************************)
RECURSIVE SumSeq(_)
SumSeq(s) == IF s = <<>> THEN 0 ELSE Head(s) + SumSeq(Tail(s))

RECURSIVE SumOver(_, _)
\* SUM(field) over a set of rows; f is "impressions" or "clicks"
SumOver(rows, f) ==
  IF rows = {} THEN 0
  ELSE LET r == CHOOSE x \in rows : TRUE
       IN r[f] + SumOver(rows \ {r}, f)

(***************************************************************************)
(* Warehouse queries (src/sql/__init__.py)                                 *)
(***************************************************************************)
\* ExperimentQueries.SELECT_BY_ID: the rows with that id
SELECT_BY_ID(experiment_id) == {e \in experiments : e.id = experiment_id}

\* ExperimentRepository.get_experiment_by_id: None (here FALSE from
\* ExperimentFound) if no row, else results[0]
ExperimentFound(experiment_id) == SELECT_BY_ID(experiment_id) # {}
get_experiment_by_id(experiment_id) ==
  CHOOSE e \in SELECT_BY_ID(experiment_id) : TRUE

\* ORDER BY is_control DESC, name
VariantBefore(a, b) ==
  \/ a.is_control /\ ~b.is_control
  \/ a.is_control = b.is_control /\ NameRank(a.name) < NameRank(b.name)

RECURSIVE OrderVariants(_)
OrderVariants(vs) ==
  IF vs = {} THEN <<>>
  ELSE LET first == CHOOSE v \in vs : \A w \in vs \ {v} : VariantBefore(v, w)
       IN <<first>> \o OrderVariants(vs \ {first})

\* VariantQueries.SELECT_BY_EXPERIMENT
select_variants_by_experiment(experiment_id) ==
  OrderVariants({v \in variants : v.experiment_id = experiment_id})

\* MetricsQueries.INSERT_RAW: only id, variant_id, metric_date, impressions
\* and clicks are in the column list; sessions and revenue are bound but not
\* written
INSERT_RAW(p) ==
  [id |-> p.id, variant_id |-> p.variant_id, metric_date |-> p.metric_date,
   impressions |-> p.impressions, clicks |-> p.clicks,
   sessions |-> SqlNull, revenue |-> SqlNull]

\* a MERGE without its WHEN MATCHED branch: every call inserts a row
UPSERT_DAILY_AlwaysInsert(table, p) ==
  table \cup
    { [id |-> p.id, variant_id |-> p.variant_id,
       metric_date |-> p.metric_date,
       impressions |-> p.impressions, clicks |-> p.clicks,
       sessions |-> SqlNull, revenue |-> SqlNull] }

\* MetricsQueries.UPSERT_DAILY: MERGE on (variant_id, metric_date)
UPSERT_DAILY(table, p) ==
  LET matched == {t \in table : t.variant_id = p.variant_id
                                /\ t.metric_date = p.metric_date}
  IN IF matched # {}
     THEN (table \ matched) \cup
          { [t EXCEPT !.impressions = p.impressions, !.clicks = p.clicks] :
              t \in matched }
     ELSE table \cup
          { [id |-> p.id, variant_id |-> p.variant_id,
             metric_date |-> p.metric_date,
             impressions |-> p.impressions, clicks |-> p.clicks,
             sessions |-> SqlNull, revenue |-> SqlNull] }

(***************************************************************************)
(* Rate limiting inputs (src/rate_limit.py)                                *)
(***************************************************************************)
\* window_seconds of every RATE_LIMITS entry, scaled down (60 in the source)
RateWindow == 1
\* resolution of the clock: time.time() returns seconds with a fraction,
\* read here in ticks of 1/TicksPerSecond second
TicksPerSecond == 2
\* max_requests of "POST /experiments", scaled down (10 in the source); the
\* other entries lie above it, those equal in the source (the metrics route
\* and the default, 100) are equal here
LimitScale == 1
\* ticks the clock may advance
MaxClock == 2

\* a path part of 36 characters holding "-", and one that is neither
UuidParts == {"0b9f6a52-7c1d-4e8a-9b3f-2d5c8e7a1f04",
              "7e3d1c90-55aa-4b6f-8c2e-91f0a4d7b3e8"}
ClientHosts == {"10.0.0.1", "10.0.0.2"}
\* no X-Forwarded-For header
NoForwarded == <<>>
\* RateLimitMiddleware.dispatch: paths that skip rate limiting; a path is the
\* sequence of its parts, "/" is the empty sequence
ExemptPaths ==
  { <<"health">>, <<"docs">>, <<"redoc">>, <<"openapi.json">>, <<>> }
\* the requests clients send: method, path, peer address and the
\* X-Forwarded-For list
HttpRequests ==
  { [method |-> "GET", path |-> <<"health">>, client_host |-> "10.0.0.1",
     forwarded |-> NoForwarded],
    [method |-> "GET", path |-> <<>>, client_host |-> "10.0.0.2",
     forwarded |-> NoForwarded],
    [method |-> "POST", path |-> <<"experiments">>,
     client_host |-> "10.0.0.1", forwarded |-> NoForwarded],
    [method |-> "GET",
     path |-> <<"experiments", "0b9f6a52-7c1d-4e8a-9b3f-2d5c8e7a1f04",
                "allocation">>,
     client_host |-> "10.0.0.1", forwarded |-> <<"10.0.0.2", "10.0.0.9">>] }

\* further requests of one client: the allocation of a second experiment,
\* an experiment itself, and a path whose first part is an identifier
PatternRequests ==
  { [method |-> "GET", path |-> pa, client_host |-> "10.0.0.1",
     forwarded |-> <<"10.0.0.2", "10.0.0.9">>] :
      pa \in { <<"experiments", "0b9f6a52-7c1d-4e8a-9b3f-2d5c8e7a1f04",
                 "allocation">>,
               <<"experiments", "7e3d1c90-55aa-4b6f-8c2e-91f0a4d7b3e8",
                 "allocation">>,
               <<"experiments", "7e3d1c90-55aa-4b6f-8c2e-91f0a4d7b3e8">>,
               <<"7e3d1c90-55aa-4b6f-8c2e-91f0a4d7b3e8">> } }

\* get_rate_limit_key: first address of X-Forwarded-For, else the peer
get_rate_limit_key(request) ==
  IF request.forwarded # NoForwarded THEN request.forwarded[1]
  ELSE IF request.client_host # NULL THEN request.client_host
  ELSE "unknown"

\* a pattern that keeps the path as it is
get_endpoint_pattern_KeepsIds(request) == <<request.method, request.path>>
\* get_endpoint_pattern: method and path with every UUID-like part after the
\* first replaced by {experiment_id}
get_endpoint_pattern(request) ==
  <<request.method,
    [i \in 1..Len(request.path) |->
       IF request.path[i] \in UuidParts /\ i > 1
       THEN "{experiment_id}" ELSE request.path[i]]>>

\* RATE_LIMITS.get(endpoint_pattern, RATE_LIMITS["default"])
RATE_LIMITS(endpoint_pattern) ==
  IF endpoint_pattern = <<"POST", <<"experiments">>>>
  THEN [max_requests |-> LimitScale, window_seconds |-> RateWindow]
  ELSE IF endpoint_pattern =
          <<"POST", <<"experiments", "{experiment_id}", "metrics">>>>
  THEN [max_requests |-> LimitScale + 3, window_seconds |-> RateWindow]
  ELSE IF endpoint_pattern =
          <<"GET", <<"experiments", "{experiment_id}", "allocation">>>>
  THEN [max_requests |-> LimitScale + 1, window_seconds |-> RateWindow]
  ELSE IF endpoint_pattern =
          <<"GET", <<"experiments", "{experiment_id}", "history">>>>
  THEN [max_requests |-> LimitScale + 2, window_seconds |-> RateWindow]
  ELSE IF endpoint_pattern = <<"GET", <<"experiments", "{experiment_id}">>>>
  THEN [max_requests |-> LimitScale + 4, window_seconds |-> RateWindow]
  ELSE [max_requests |-> LimitScale + 3, window_seconds |-> RateWindow]

\* full_key = f"{key}:{endpoint_pattern}"
full_key(request) ==
  <<get_rate_limit_key(request), get_endpoint_pattern(request)>>

\* the keys of rate_limiter._requests (a defaultdict: an absent key reads as
\* the empty list)
RateKeys == {full_key(r) : r \in HttpRequests \cup PatternRequests}

NoMwReq == [request |-> NULL]
NoHttpResp == [status |-> 0]

InitMw ==
  /\ clock = 0
  /\ rate_limiter = [k \in RateKeys |-> <<>>]
  /\ mw_pc = [p \in Procs |-> "idle"]
  /\ mw_req = [p \in Procs |-> NoMwReq]
  /\ http_resp = NoHttpResp

(***************************************************************************)
(* Initial state: a warehouse that already holds two active experiments,   *)
(* one with two and one with three variants, and no metrics                *)
(***************************************************************************)
StoredExperiments ==
  { [id |-> "e1", name |-> "homepage_cta_test", status |-> "active",
     optimization_target |-> "ctr"],
    [id |-> "e2", name |-> "banner_test", status |-> "active",
     optimization_target |-> "ctr"] }
StoredVariants ==
  { [id |-> "v1", experiment_id |-> "e1", name |-> "control",
     is_control |-> TRUE],
    [id |-> "v2", experiment_id |-> "e1", name |-> "variant_a",
     is_control |-> FALSE],
    [id |-> "v3", experiment_id |-> "e2", name |-> "control",
     is_control |-> TRUE],
    [id |-> "v4", experiment_id |-> "e2", name |-> "variant_a",
     is_control |-> FALSE],
    [id |-> "v5", experiment_id |-> "e2", name |-> "variant_b",
     is_control |-> FALSE] }

InitDb ==
  /\ experiments = StoredExperiments
  /\ variants = StoredVariants
  /\ raw_metrics = {}
  /\ daily_metrics = {}
  /\ allocation_history = {}
  /\ allocation_history_details = {}
  \* get_connection passes no autocommit argument: the account's or user's
  \* AUTOCOMMIT parameter decides
  /\ autocommit \in BOOLEAN

InitProcs ==
  /\ uuid_counter = 0
  /\ pc = [p \in Procs |-> "idle"]
  /\ req = [p \in Procs |-> NoReq]
  /\ tx = [p \in Procs |-> NoTx]
  /\ lock = NULL
  /\ resp = [p \in Procs |-> NoResp]

Init ==
  /\ today = Day0
  /\ InitDb
  /\ InitProcs
  /\ alloc_resp = NoResp
  /\ InitService
  /\ InitMw

(***************************************************************************)
(* POST /experiments/{id}/metrics                                          *)
(***************************************************************************)
\* a MetricInput without its model validator
validate_MetricInput_NoClicksCheck(m) ==
  /\ m.sessions >= 0 /\ m.impressions >= 0 /\ m.clicks >= 0
  /\ m.revenue >= 0
\* MetricInput: sessions, impressions, clicks, revenue ge 0 and
\* validate_clicks_le_impressions
validate_MetricInput(m) ==
  /\ m.sessions >= 0 /\ m.impressions >= 0 /\ m.clicks >= 0
  /\ m.revenue >= 0
  /\ m.clicks <= m.impressions

\* the router's mapping of a ValueError of the service to a status: 404 if
\* its message holds "not found", else 400
ValueErrorStatus(message) ==
  IF \E i \in 1..Len(message) :
       message[i] \in {"' not found", "' not found in experiment"}
  THEN 404 ELSE 400

\* request validation (422), then ExperimentService.record_metrics up to the
\* insert loop, with the router's mapping of ValueError to a status; a
\* message is the sequence of the pieces of its f-string
StartRecordMetrics(p, experiment_id, date, metrics) ==
  /\ pc[p] = "idle"
  /\ p = "p2" => pc["p1"] # "idle"
  /\ uuid_counter + Len(metrics) <= MaxInserts
  /\ LET vs == select_variants_by_experiment(experiment_id)
         names == {vs[i].name : i \in 1..Len(vs)}
         unknown == {i \in 1..Len(metrics) : metrics[i].variant_name \notin names}
     IN IF \E i \in 1..Len(metrics) : ~validate_MetricInput(metrics[i])
        THEN /\ resp' = [resp EXCEPT ![p] =
                          [status |-> 422, detail |-> <<"validation error">>]]
             /\ UNCHANGED <<pc, req>>
        ELSE IF ~ExperimentFound(experiment_id)
        THEN LET message == <<"Experiment '", experiment_id, "' not found">>
             IN /\ resp' = [resp EXCEPT ![p] =
                             [status |-> ValueErrorStatus(message),
                              detail |-> message]]
                /\ UNCHANGED <<pc, req>>
        ELSE IF unknown # {}
        THEN LET first == CHOOSE i \in unknown : \A j \in unknown : i <= j
                 message == <<"Variant '", metrics[first].variant_name,
                              "' not found in experiment">>
             IN /\ resp' = [resp EXCEPT ![p] =
                             [status |-> ValueErrorStatus(message),
                              detail |-> message]]
                /\ UNCHANGED <<pc, req>>
        ELSE /\ pc' = [pc EXCEPT ![p] = "insert_raw"]
             /\ req' = [req EXCEPT ![p] =
                         [experiment_id |-> experiment_id, date |-> date,
                          metrics |-> metrics, k |-> 1, raw_id |-> 0,
                          raw_ids |-> {},
                          variant_ids |->
                            [n \in names |->
                               (CHOOSE i \in 1..Len(vs) : vs[i].name = n)]]]
             /\ resp' = [resp EXCEPT ![p] = NoResp]
  /\ UNCHANGED <<today, dbvars, tx, lock, uuid_counter, alloc_resp, apivars, mwvars>>

\* the variant id of the entry being inserted
CurVariantId(p) ==
  LET vs == select_variants_by_experiment(req[p].experiment_id)
  IN vs[req[p].variant_ids[req[p].metrics[req[p].k].variant_name]].id

\* insert_metrics: draw raw_id and daily_id, open the connection and execute
\* INSERT_RAW; with autocommit the statement is committed at once, otherwise
\* it stays in the connection's transaction
InsertRaw(p) ==
  /\ pc[p] = "insert_raw"
  /\ LET m == req[p].metrics[req[p].k]
         raw_id == 2 * uuid_counter + 1
         row == INSERT_RAW([id |-> raw_id, variant_id |-> CurVariantId(p),
                            metric_date |-> req[p].date,
                            impressions |-> m.impressions,
                            clicks |-> m.clicks,
                            sessions |-> m.sessions, revenue |-> m.revenue])
     IN /\ IF autocommit
           THEN raw_metrics' = raw_metrics \cup {row} /\ UNCHANGED tx
           ELSE tx' = [tx EXCEPT ![p].raw = {row}] /\ UNCHANGED raw_metrics
        /\ req' = [req EXCEPT ![p].raw_id = raw_id,
                              ![p].raw_ids = @ \cup {raw_id}]
  /\ uuid_counter' = uuid_counter + 1
  /\ pc' = [pc EXCEPT ![p] = "upsert_daily"]
  /\ UNCHANGED <<today, experiments, variants, daily_metrics,
                 allocation_history, allocation_history_details, autocommit,
                 lock, resp, alloc_resp, apivars, mwvars>>

\* insert_metrics: execute UPSERT_DAILY.  The MERGE waits for the DML lock
\* on daily_metrics; with autocommit it is committed at once, otherwise it
\* stays in the transaction, which holds the lock until it ends
UpsertDaily(p) ==
  /\ pc[p] = "upsert_daily"
  /\ lock = NULL
  /\ LET m == req[p].metrics[req[p].k]
         daily_id == req[p].raw_id + 1
         merged == UPSERT_DAILY(daily_metrics,
                     [id |-> daily_id, variant_id |-> CurVariantId(p),
                      metric_date |-> req[p].date,
                      impressions |-> m.impressions, clicks |-> m.clicks,
                      sessions |-> m.sessions, revenue |-> m.revenue])
     IN IF autocommit
        THEN daily_metrics' = merged /\ UNCHANGED <<tx, lock>>
        ELSE /\ tx' = [tx EXCEPT ![p].daily = merged]
             /\ lock' = p
             /\ UNCHANGED daily_metrics
  /\ pc' = [pc EXCEPT ![p] = "commit"]
  /\ UNCHANGED <<today, experiments, variants, raw_metrics,
                 allocation_history, allocation_history_details, autocommit,
                 req, resp, uuid_counter, alloc_resp, apivars, mwvars>>

\* insert_metrics: conn.commit() (nothing is pending with autocommit), then
\* the next entry of the batch or the 201 MetricsResponse
Commit(p) ==
  /\ pc[p] = "commit"
  /\ IF autocommit
     THEN UNCHANGED <<raw_metrics, daily_metrics, lock, tx>>
     ELSE /\ raw_metrics' = raw_metrics \cup tx[p].raw
          /\ daily_metrics' = tx[p].daily
          /\ lock' = NULL
          /\ tx' = [tx EXCEPT ![p] = NoTx]
  /\ IF req[p].k < Len(req[p].metrics)
     THEN /\ req' = [req EXCEPT ![p].k = @ + 1]
          /\ pc' = [pc EXCEPT ![p] = "insert_raw"]
          /\ UNCHANGED resp
     ELSE /\ resp' = [resp EXCEPT ![p] =
                        [status |-> 201]]
          /\ req' = [req EXCEPT ![p] = NoReq]
          /\ pc' = [pc EXCEPT ![p] = "idle"]
  /\ UNCHANGED <<today, experiments, variants, allocation_history,
                 allocation_history_details, autocommit, uuid_counter,
                 alloc_resp, apivars, mwvars>>

\* insert_metrics: a statement or the commit raises; conn.rollback() drops
\* the open transaction (what autocommit has committed stays), the exception is not a ValueError and reaches
\* global_exception_handler (500)
StorageError(p) ==
  /\ pc[p] \in {"insert_raw", "upsert_daily", "commit"}
  /\ tx' = [tx EXCEPT ![p] = NoTx]
  /\ lock' = IF lock = p THEN NULL ELSE lock
  /\ resp' = [resp EXCEPT ![p] = [status |-> 500]]
  /\ req' = [req EXCEPT ![p] = NoReq]
  /\ pc' = [pc EXCEPT ![p] = "idle"]
  /\ UNCHANGED <<today, dbvars, uuid_counter, alloc_resp, apivars, mwvars>>

\* midnight UTC
AdvanceDay ==
  /\ today < Day0 + MaxDayShift
  /\ today' = today + 1
  /\ UNCHANGED <<dbvars, procvars, alloc_resp, apivars, mwvars>>

(***************************************************************************)
(* POST /experiments.  ExperimentService.create_experiment passes          *)
(* data.optimization_target to the repository, a field ExperimentCreate    *)
(* does not declare in this revision; the bodies are taken to carry it, as *)
(* the service, the repository and the INSERT statement require.           *)
(***************************************************************************)
\* ExperimentQueries.SELECT_BY_NAME / ExperimentRepository.get_experiment_by_name
SELECT_BY_NAME(name) == {e \in experiments : e.name = name}

\* ExperimentCreate: variants min_length 2, validate_has_control,
\* validate_unique_names
validate_ExperimentCreate(data) ==
  /\ Len(data.variants) >= 2
  /\ \E i \in 1..Len(data.variants) : data.variants[i].is_control
  /\ Cardinality({data.variants[i].name : i \in 1..Len(data.variants)})
       = Len(data.variants)

NoCreateTx == [experiments |-> {}, variants |-> {}]

\* the route up to the repository call: request validation (422), the name
\* check of ExperimentService.create_experiment (ValueError -> 409), then
\* ExperimentRepository.create_experiment draws the experiment id and opens
\* its connection
StartCreate(p, data) ==
  /\ pc[p] = "idle"
  /\ p = "p2" => pc["p1"] # "idle"
  /\ IF ~validate_ExperimentCreate(data)
     THEN /\ resp' = [resp EXCEPT ![p] = [status |-> 422]]
          /\ UNCHANGED <<pc, req, tx, uuid_counter>>
     ELSE IF SELECT_BY_NAME(data.name) # {}
     THEN /\ resp' = [resp EXCEPT ![p] = [status |-> 409]]
          /\ UNCHANGED <<pc, req, tx, uuid_counter>>
     ELSE /\ uuid_counter < MaxCreates
          /\ uuid_counter' = uuid_counter + 1
          /\ pc' = [pc EXCEPT ![p] = "insert_experiment"]
          /\ req' = [req EXCEPT ![p] =
                      [experiment_id |-> ExperimentUuids[uuid_counter + 1],
                       data |-> data, k |-> 1,
                       variant_ids |-> VariantUuids[uuid_counter + 1]]]
          /\ tx' = [tx EXCEPT ![p] = NoCreateTx]
          /\ resp' = [resp EXCEPT ![p] = NoResp]
  /\ UNCHANGED <<today, dbvars, lock, alloc_resp, apivars, mwvars>>

\* create_experiment: execute ExperimentQueries.INSERT
InsertExperiment(p) ==
  /\ pc[p] = "insert_experiment"
  /\ LET row == [id |-> req[p].experiment_id, name |-> req[p].data.name,
                 status |-> "active",
                 optimization_target |-> req[p].data.optimization_target]
     IN IF autocommit
        THEN experiments' = experiments \cup {row} /\ UNCHANGED tx
        ELSE /\ tx' = [tx EXCEPT ![p].experiments = {row}]
             /\ UNCHANGED experiments
  /\ pc' = [pc EXCEPT ![p] = "insert_variant"]
  /\ UNCHANGED <<today, variants, raw_metrics, daily_metrics,
                 allocation_history, allocation_history_details, autocommit,
                 req, lock, resp, uuid_counter, alloc_resp, apivars, mwvars>>

\* create_experiment: one turn of the variants loop, VariantQueries.INSERT
InsertVariant(p) ==
  /\ pc[p] = "insert_variant"
  /\ LET v == req[p].data.variants[req[p].k]
         row == [id |-> req[p].variant_ids[req[p].k],
                 experiment_id |-> req[p].experiment_id,
                 name |-> v.name, is_control |-> v.is_control]
     IN IF autocommit
        THEN variants' = variants \cup {row} /\ UNCHANGED tx
        ELSE /\ tx' = [tx EXCEPT ![p].variants = @ \cup {row}]
             /\ UNCHANGED variants
  /\ IF req[p].k < Len(req[p].data.variants)
     THEN /\ req' = [req EXCEPT ![p].k = @ + 1]
          /\ UNCHANGED pc
     ELSE /\ pc' = [pc EXCEPT ![p] = "commit_create"]
          /\ UNCHANGED req
  /\ UNCHANGED <<today, experiments, raw_metrics, daily_metrics,
                 allocation_history, allocation_history_details, autocommit,
                 lock, resp, uuid_counter, alloc_resp, apivars, mwvars>>

\* create_experiment: conn.commit() (nothing is pending with autocommit) and
\* the 201 ExperimentResponse
CommitCreate(p) ==
  /\ pc[p] = "commit_create"
  /\ IF autocommit
     THEN UNCHANGED <<experiments, variants>>
     ELSE /\ experiments' = experiments \cup tx[p].experiments
          /\ variants' = variants \cup tx[p].variants
  /\ tx' = [tx EXCEPT ![p] = NoTx]
  /\ resp' = [resp EXCEPT ![p] =
                [status |-> 201, id |-> req[p].experiment_id]]
  /\ req' = [req EXCEPT ![p] = NoReq]
  /\ pc' = [pc EXCEPT ![p] = "idle"]
  /\ UNCHANGED <<today, raw_metrics, daily_metrics, allocation_history,
                 allocation_history_details, autocommit, lock, uuid_counter,
                 alloc_resp, apivars, mwvars>>

\* create_experiment: a statement or the commit raises; conn.rollback()
\* drops the open transaction (what autocommit has committed stays) and the
\* exception, not a ValueError, reaches global_exception_handler (500)
CreateError(p) ==
  /\ pc[p] \in {"insert_experiment", "insert_variant", "commit_create"}
  /\ tx' = [tx EXCEPT ![p] = NoTx]
  /\ resp' = [resp EXCEPT ![p] =
                [status |-> 500, id |-> req[p].experiment_id]]
  /\ req' = [req EXCEPT ![p] = NoReq]
  /\ pc' = [pc EXCEPT ![p] = "idle"]
  /\ UNCHANGED <<today, dbvars, lock, uuid_counter, alloc_resp, apivars, mwvars>>

NextCreate ==
  \/ \E p \in Procs, data \in ExperimentCreates : StartCreate(p, data)
  \/ \E p \in Procs : InsertExperiment(p)
  \/ \E p \in Procs : InsertVariant(p)
  \/ \E p \in Procs : CommitCreate(p)
  \/ \E p \in Procs : CreateError(p)

SpecCreate == Init /\ [][NextCreate]_vars

(***************************************************************************)
(* Rate limiter and middleware stack (src/rate_limit.py, src/middleware.py,*)
(* src/main.py).  time.time() is read in ticks; the two reads of one       *)
(* is_allowed call (in is_allowed and in _clean_old_requests) fall in the  *)
(* same tick.  Timestamps and now are in ticks, window_seconds and         *)
(* reset_seconds in seconds.                                               *)
(***************************************************************************)
\* a cleaning whose cutoff lies a window ahead of now instead of behind it
clean_old_requests_CutoffAhead(table, key, window_seconds, now) ==
  [table EXCEPT ![key] =
     SelectSeq(@, LAMBDA e : e[1] > now + window_seconds * TicksPerSecond)]
\* RateLimiter._clean_old_requests: keep the entries with ts > cutoff
clean_old_requests(table, key, window_seconds, now) ==
  [table EXCEPT ![key] =
     SelectSeq(@, LAMBDA e : e[1] > now - window_seconds * TicksPerSecond)]

\* sum(count for _, count in self._requests[key])
RECURSIVE total_requests(_)
total_requests(entries) ==
  IF entries = <<>> THEN 0
  ELSE Head(entries)[2] + total_requests(Tail(entries))

\* a recording that replaces the key's list by the new entry
is_allowed_Overwrites(table, key, max_requests, window_seconds, now) ==
  LET cleaned == clean_old_requests(table, key, window_seconds, now)
      total == total_requests(cleaned[key])
  IN IF total >= max_requests
     THEN [allowed |-> FALSE, remaining |-> 0,
           reset |-> IF cleaned[key] # <<>>
                     THEN (cleaned[key][1][1]
                             + window_seconds * TicksPerSecond - now)
                            \div TicksPerSecond
                     ELSE window_seconds,
           requests |-> cleaned]
     ELSE [allowed |-> TRUE, remaining |-> max_requests - total - 1,
           reset |-> window_seconds,
           requests |-> [cleaned EXCEPT ![key] = <<<<now, 1>>>>]]
\* a limiter whose remaining value leaves the admitted call itself out
is_allowed_RemainingBeforeCall(table, key, max_requests, window_seconds, now) ==
  LET cleaned == clean_old_requests(table, key, window_seconds, now)
      total == total_requests(cleaned[key])
  IN IF total >= max_requests
     THEN [allowed |-> FALSE, remaining |-> 0,
           reset |-> IF cleaned[key] # <<>>
                     THEN (cleaned[key][1][1]
                             + window_seconds * TicksPerSecond - now)
                            \div TicksPerSecond
                     ELSE window_seconds,
           requests |-> cleaned]
     ELSE [allowed |-> TRUE, remaining |-> max_requests - total,
           reset |-> window_seconds,
           requests |-> [cleaned EXCEPT ![key] = Append(@, <<now, 1>>)]]
\* a limiter that records the blocked calls too
is_allowed_RecordsBlocked(table, key, max_requests, window_seconds, now) ==
  LET cleaned == clean_old_requests(table, key, window_seconds, now)
      total == total_requests(cleaned[key])
  IN IF total >= max_requests
     THEN [allowed |-> FALSE, remaining |-> 0,
           reset |-> IF cleaned[key] # <<>>
                     THEN (cleaned[key][1][1]
                             + window_seconds * TicksPerSecond - now)
                            \div TicksPerSecond
                     ELSE window_seconds,
           requests |-> [cleaned EXCEPT ![key] = Append(@, <<now, 1>>)]]
     ELSE [allowed |-> TRUE, remaining |-> max_requests - total - 1,
           reset |-> window_seconds,
           requests |-> [cleaned EXCEPT ![key] = Append(@, <<now, 1>>)]]
\* RateLimiter.is_allowed: (is_allowed, remaining, reset_seconds) and the
\* table it leaves.  The oldest entry is the first of the list, and
\* int(oldest_ts + window_seconds - now) drops the fraction of a second.
is_allowed(table, key, max_requests, window_seconds, now) ==
  LET cleaned == clean_old_requests(table, key, window_seconds, now)
      total == total_requests(cleaned[key])
  IN IF total >= max_requests
     THEN [allowed |-> FALSE, remaining |-> 0,
           reset |-> IF cleaned[key] # <<>>
                     THEN (cleaned[key][1][1]
                             + window_seconds * TicksPerSecond - now)
                            \div TicksPerSecond
                     ELSE window_seconds,
           requests |-> cleaned]
     ELSE [allowed |-> TRUE, remaining |-> max_requests - total - 1,
           reset |-> window_seconds,
           requests |-> [cleaned EXCEPT ![key] = Append(@, <<now, 1>>)]]

\* an exemption test that knows the health check only
IsExempt_HealthOnly(request) == request.path = <<"health">>
\* RateLimitMiddleware.dispatch: request.url.path in exempt_paths
IsExempt(request) == request.path \in ExemptPaths

\* the HTTPException RateLimitMiddleware.dispatch raises when blocked
RateLimitExceeded(config, reset) ==
  [status_code |-> 429,
   headers |-> { <<"X-RateLimit-Limit", config.max_requests>>,
                 <<"X-RateLimit-Remaining", 0>>,
                 <<"X-RateLimit-Reset", reset>>,
                 <<"Retry-After", reset>> }]

\* global_exception_handler, registered for Exception: the handler the
\* outermost server-error layer answers with when an exception leaves the
\* middleware stack
global_exception_handler(request, exc) ==
  [status |-> 500, headers |-> {}, handled |-> FALSE]

\* RequestLoggingMiddleware.dispatch around an inner layer that raised: the
\* exception is logged and raised again
RequestLoggingMiddleware(request, exc) == exc

\* the response an exception raised in RateLimitMiddleware.dispatch ends in:
\* the middleware was added before RequestLoggingMiddleware and so runs inside
\* it, outside the router's HTTPException handling; the exception passes
\* RequestLoggingMiddleware and reaches global_exception_handler
RaisedInMiddleware(request, exc) ==
  global_exception_handler(request, RequestLoggingMiddleware(request, exc))

\* RateLimitMiddleware.dispatch up to call_next.  is_allowed holds no await:
\* it runs without interleaving on the event loop
Dispatch(p, request) ==
  /\ mw_pc[p] = "idle"
  /\ p = "p2" => mw_pc["p1"] # "idle"
  /\ IF IsExempt(request)
     THEN /\ mw_pc' = [mw_pc EXCEPT ![p] = "call_next"]
          /\ mw_req' = [mw_req EXCEPT ![p] =
                          [request |-> request, limited |-> FALSE]]
          /\ UNCHANGED <<rate_limiter, http_resp>>
     ELSE LET config == RATE_LIMITS(get_endpoint_pattern(request))
              r == is_allowed(rate_limiter, full_key(request),
                              config.max_requests, config.window_seconds,
                              clock)
          IN /\ rate_limiter' = r.requests
             /\ IF ~r.allowed
                THEN /\ http_resp' =
                          RaisedInMiddleware(request,
                            RateLimitExceeded(config, r.reset))
                     /\ UNCHANGED <<mw_pc, mw_req>>
                ELSE /\ mw_pc' = [mw_pc EXCEPT ![p] = "call_next"]
                     /\ mw_req' = [mw_req EXCEPT ![p] =
                          [request |-> request, limited |-> TRUE,
                           ts |-> clock,
                           max_requests |-> config.max_requests,
                           remaining |-> r.remaining, reset |-> r.reset]]
                     /\ UNCHANGED http_resp
  /\ UNCHANGED <<today, dbvars, procvars, alloc_resp, apivars, clock>>

\* RateLimitMiddleware.dispatch after call_next: the route handler has
\* answered; a rate-limited path gets the three X-RateLimit headers
CallNext(p) ==
  /\ mw_pc[p] = "call_next"
  /\ http_resp' =
       [status |-> 200,
        headers |-> IF mw_req[p].limited
                    THEN { <<"X-RateLimit-Limit", mw_req[p].max_requests>>,
                           <<"X-RateLimit-Remaining", mw_req[p].remaining>>,
                           <<"X-RateLimit-Reset", mw_req[p].reset>> }
                    ELSE {},
        handled |-> TRUE]
  /\ mw_req' = [mw_req EXCEPT ![p] = NoMwReq]
  /\ mw_pc' = [mw_pc EXCEPT ![p] = "idle"]
  /\ UNCHANGED <<today, dbvars, procvars, alloc_resp, apivars, clock, rate_limiter>>

\* the wall clock advances
Tick ==
  /\ clock < MaxClock
  /\ clock' = clock + 1
  /\ UNCHANGED <<today, dbvars, procvars, alloc_resp, apivars, rate_limiter, mw_pc,
                 mw_req, http_resp>>

NextRate ==
  \/ \E p \in Procs, request \in HttpRequests : Dispatch(p, request)
  \/ \E p \in Procs : CallNext(p)
  \/ Tick

\* the middleware never touches the warehouse: the stored experiments, no
\* metrics, and the default AUTOCOMMIT
InitRate ==
  /\ Init
  /\ autocommit = TRUE

SpecRate == InitRate /\ [][NextRate]_vars

\* one client's requests to several paths, arriving within one tick
NextPattern ==
  \/ \E p \in Procs, request \in PatternRequests : Dispatch(p, request)
  \/ \E p \in Procs : CallNext(p)

SpecPattern == InitRate /\ [][NextPattern]_vars

(***************************************************************************)
(* Aggregation query and statistics kernel                                 *)
(***************************************************************************)
\* an aggregation whose window runs up to and including today
SELECT_FOR_ALLOCATION_IncludesToday(experiment_id, window_days) ==
  LET vs == select_variants_by_experiment(experiment_id)
      joined(v) == {m \in daily_metrics :
                      /\ m.variant_id = v.id
                      /\ m.metric_date >= today - window_days
                      /\ m.metric_date <= today}
  IN [i \in 1..Len(vs) |->
        LET impressions == SumOver(joined(vs[i]), "impressions")
            clicks == SumOver(joined(vs[i]), "clicks")
        IN [variant_id |-> vs[i].id, variant_name |-> vs[i].name,
            is_control |-> vs[i].is_control,
            impressions |-> impressions, clicks |-> clicks,
            beta_alpha |-> clicks + prior_alpha,
            beta_beta |-> impressions - clicks + prior_beta]]
\* MetricsQueries.SELECT_FOR_ALLOCATION: one row per variant of the
\* experiment, LEFT JOIN over daily_metrics with
\* today - window_days <= metric_date < today, COALESCE(SUM, 0),
\* ORDER BY is_control DESC, variant_name.  The ratio column ctr is left out.
\* The query of this revision returns no sessions and no revenue column,
\* while _convert_to_variant_data reads m["sessions"] and m["revenue"]
\* (services/allocation.py 248-251) and would raise KeyError on such a row.
\* The rows here are taken to carry every field the conversion reads, so
\* that the service's window, fallback and allocation logic is reachable;
\* the sessions, revenue, ctr, rps and rpm fields, which the CTR path only
\* copies into the response, are not carried.
SELECT_FOR_ALLOCATION(experiment_id, window_days) ==
  LET vs == select_variants_by_experiment(experiment_id)
      joined(v) == {m \in daily_metrics :
                      /\ m.variant_id = v.id
                      /\ m.metric_date >= today - window_days
                      /\ m.metric_date < today}
  IN [i \in 1..Len(vs) |->
        LET impressions == SumOver(joined(vs[i]), "impressions")
            clicks == SumOver(joined(vs[i]), "clicks")
        IN [variant_id |-> vs[i].id, variant_name |-> vs[i].name,
            is_control |-> vs[i].is_control,
            impressions |-> impressions, clicks |-> clicks,
            beta_alpha |-> clicks + prior_alpha,
            beta_beta |-> impressions - clicks + prior_beta]]

\* MetricsRepository.get_metrics_for_allocation
get_metrics_for_allocation(experiment_id, window_days) ==
  SELECT_FOR_ALLOCATION(experiment_id, window_days)

\* ThompsonSamplingEngine.compute_beta_params_ctr
compute_beta_params_ctr(clicks, impressions) ==
  [alpha |-> prior_alpha + clicks,
   beta |-> prior_beta + impressions - clicks]

\* AllocationService._has_sufficient_data
has_sufficient_data(vdata) ==
  IF vdata = <<>> THEN FALSE
  ELSE \A i \in 1..Len(vdata) : vdata[i].impressions >= min_impressions

\* a conversion that ignores use_fallback: arms with enough impressions
\* keep their observed posterior
convert_to_variant_data_IgnoreFallback(metrics_data, optimization_target, use_fallback) ==
  [i \in 1..Len(metrics_data) |->
     LET m == metrics_data[i]
         ab == IF m.impressions < min_impressions
               THEN [alpha |-> prior_alpha, beta |-> prior_beta]
               ELSE compute_beta_params_ctr(m.clicks, m.impressions)
     IN [variant_id |-> m.variant_id, variant_name |-> m.variant_name,
         is_control |-> m.is_control,
         impressions |-> m.impressions, clicks |-> m.clicks,
         alpha |-> ab.alpha, beta |-> ab.beta,
         data_source |-> IF m.impressions < min_impressions
                         THEN "fallback" ELSE "observed"]]

\* AllocationService._convert_to_variant_data
convert_to_variant_data(metrics_data, optimization_target, use_fallback) ==
  [i \in 1..Len(metrics_data) |->
     LET m == metrics_data[i]
         ab == IF use_fallback \/ m.impressions < min_impressions
               THEN [alpha |-> prior_alpha, beta |-> prior_beta]
               ELSE IF optimization_target = "ctr"
               THEN compute_beta_params_ctr(m.clicks, m.impressions)
               ELSE [alpha |-> 1, beta |-> 1]
     IN [variant_id |-> m.variant_id, variant_name |-> m.variant_name,
         is_control |-> m.is_control,
         impressions |-> m.impressions, clicks |-> m.clicks,
         alpha |-> ab.alpha, beta |-> ab.beta,
         data_source |-> IF use_fallback \/ m.impressions < min_impressions
                         THEN "fallback" ELSE "observed"]]

\* round(n / d, 0) as Python rounds: to nearest, ties to even
RoundHalfEven(n, d) ==
  LET q == n \div d
      r == n % d
  IN IF 2 * r < d THEN q
     ELSE IF 2 * r > d THEN q + 1
     ELSE IF q % 2 = 0 THEN q ELSE q + 1

\* round((count / n_samples) * 100, 2), in hundredths
WinPercentage(count, n_samples) == RoundHalfEven(count * 10000, n_samples)

\* max(allocations, key=allocations.get): the first key holding the maximum
MaxVariant(allocations) ==
  CHOOSE i \in 1..Len(allocations) :
    /\ \A j \in 1..Len(allocations) : allocations[j] <= allocations[i]
    /\ \A j \in 1..(i - 1) : allocations[j] < allocations[i]

\* the win counters the Monte Carlo loop can end with: stats.beta.rvs draws
\* from the unseeded process-global generator, so every split of the
\* n_samples rounds among the n arms (up to three here) is a possible outcome
WinCountsOf ==
  [n \in 1..3 |-> {w \in [1..n -> 0..ThompsonSamples] :
                     SumSeq(w) = ThompsonSamples}]
WinCounts(n) == WinCountsOf[n]

\* the rounded percentages without the residue adjustment
calculate_allocation_NoResidue(vdata, wins, n_samples) ==
  [i \in 1..Len(vdata) |-> WinPercentage(wins[i], n_samples)]

\* ThompsonSamplingEngine.calculate_allocation, given the win counters;
\* the result is listed in the order of the variants (the dict's order)
calculate_allocation(vdata, wins, n_samples) ==
  IF vdata = <<>> THEN <<>>
  ELSE LET allocations ==
             [i \in 1..Len(vdata) |-> WinPercentage(wins[i], n_samples)]
           total == SumSeq(allocations)
       IN IF total # 10000
          THEN [allocations EXCEPT ![MaxVariant(allocations)] =
                                       @ + (10000 - total)]
          ELSE allocations

(***************************************************************************)
(* GET /experiments/{id}/allocation                                        *)
(***************************************************************************)
\* sort key (-is_control, -allocation_percentage)
SortsBefore(a, b) ==
  \/ a.is_control /\ ~b.is_control
  \/ /\ a.is_control = b.is_control
     /\ a.allocation_percentage > b.allocation_percentage

\* list.sort is stable: x goes after every entry it does not sort before
InsertSorted(sorted, x) ==
  IF \E j \in 1..Len(sorted) : SortsBefore(x, sorted[j])
  THEN LET j == CHOOSE k \in 1..Len(sorted) :
                  /\ SortsBefore(x, sorted[k])
                  /\ \A l \in 1..(k - 1) : ~SortsBefore(x, sorted[l])
       IN SubSeq(sorted, 1, j - 1) \o <<x>> \o SubSeq(sorted, j, Len(sorted))
  ELSE Append(sorted, x)

RECURSIVE SortAllocations(_)
SortAllocations(s) ==
  IF s = <<>> THEN <<>>
  ELSE InsertSorted(SortAllocations(SubSeq(s, 1, Len(s) - 1)), s[Len(s)])

\* a service that never widens the window
ActualWindow_NoExpand(experiment_id, window_days, optimization_target) ==
  window_days

\* a service that widens (here: narrows) to the maximum whatever was asked
ActualWindow_AlwaysMax(experiment_id, window_days, optimization_target) ==
  LET first == convert_to_variant_data(
                 get_metrics_for_allocation(experiment_id, window_days),
                 optimization_target, FALSE)
  IN IF ~has_sufficient_data(first) THEN max_window_days ELSE window_days

\* step 2 of get_allocation: the window finally used
ActualWindow(experiment_id, window_days, optimization_target) ==
  LET first == convert_to_variant_data(
                 get_metrics_for_allocation(experiment_id, window_days),
                 optimization_target, FALSE)
  IN IF ~has_sufficient_data(first) /\ window_days < max_window_days
     THEN max_window_days
     ELSE window_days

\* the algorithm description string
AlgorithmName(used_fallback, optimization_target) ==
  IF used_fallback
  THEN <<"thompson_sampling (fallback: prior only, target: ",
         optimization_target, ")">>
  ELSE <<"thompson_sampling (target: ", optimization_target, ")">>

\* AllocationService.get_allocation for an existing experiment, steps 1 to
\* 3: the window finally used, the fallback flag and the arms handed to the
\* engine
select_variants(experiment_id, window_param) ==
  LET window_days == IF window_param = NoWindow THEN default_window_days
                     ELSE window_param
      experiment == get_experiment_by_id(experiment_id)
      optimization_target == experiment.optimization_target
      actual_window == ActualWindow(experiment_id, window_days,
                                    optimization_target)
      metrics_data == get_metrics_for_allocation(experiment_id,
                                                 actual_window)
      observed == convert_to_variant_data(metrics_data, optimization_target,
                                          FALSE)
      used_fallback == ~has_sufficient_data(observed)
  IN [experiment_id |-> experiment_id,
      experiment_name |-> experiment.name,
      optimization_target |-> optimization_target,
      requested |-> window_param,
      actual_window |-> actual_window,
      used_fallback |-> used_fallback,
      variants |-> IF used_fallback
                   THEN convert_to_variant_data(metrics_data,
                                                optimization_target, TRUE)
                   ELSE observed]

\* AllocationService.get_allocation from the engine call on, given the win
\* counters of the sampling; the record holds the AllocationResponse
\* (experiment_id, algorithm, optimization_target, window_days, allocations)
\* and the call's inputs and locals (requested, day, used_fallback, arms)
get_allocation(sel, wins) ==
  LET vdata == sel.variants
      allocations == calculate_allocation(vdata, wins, ThompsonSamples)
      variant_allocations ==
        [i \in 1..Len(vdata) |->
           [variant_name |-> vdata[i].variant_name,
            is_control |-> vdata[i].is_control,
            allocation_percentage |-> allocations[i],
            impressions |-> vdata[i].impressions,
            clicks |-> vdata[i].clicks]]
  IN [status |-> 200,
      experiment_id |-> sel.experiment_id,
      experiment_name |-> sel.experiment_name,
      algorithm |-> AlgorithmName(sel.used_fallback, sel.optimization_target),
      optimization_target |-> sel.optimization_target,
      window_days |-> sel.actual_window,
      allocations |-> SortAllocations(variant_allocations),
      requested |-> sel.requested,
      day |-> today,
      used_fallback |-> sel.used_fallback,
      arms |-> [i \in 1..Len(vdata) |->
                  [variant_name |-> vdata[i].variant_name,
                   alpha |-> vdata[i].alpha, beta |-> vdata[i].beta]]]

\* the route handler: 404 when the service returns None, else the response;
\* nothing is written to the warehouse.  The handler makes no call to
\* check_daily_allocation_limit and the service reads no status.
\* _sample_ctr calls stats.beta.rvs without random_state, so the variates
\* come from np_random and leave it advanced.
GetAllocation(experiment_id, window_param) ==
  /\ IF ~ExperimentFound(experiment_id)
     THEN /\ alloc_resp' = [status |-> 404]
          /\ UNCHANGED np_random
     ELSE LET sel == select_variants(experiment_id, window_param)
          IN \E wins \in WinCounts(Len(sel.variants)) :
               /\ alloc_resp' = get_allocation(sel, wins)
               /\ np_random' = wins
  /\ UNCHANGED <<today, dbvars, procvars, mwvars, history_resp,
                 daily_allocation_limit>>

\* warehouse contents ingestion can leave behind: per (variant, date) at
\* most one daily row, and the raw row of the call that wrote it
Keys == <<[v |-> "v1", d |-> Day0 - 30], [v |-> "v1", d |-> Day0 - 14],
          [v |-> "v2", d |-> Day0 - 14], [v |-> "v2", d |-> Day0 + 1]>>
Absent == [impressions |-> 0, clicks |-> 0, sessions |-> 0, revenue |-> 0]
\* what a key may hold: the oldest and the newest date one payload or none
KeyCounts(k) ==
  IF Keys[k].d = Day0 - 14 THEN MetricCounts \cup {Absent}
  ELSE {c \in MetricCounts : c.impressions = 250} \cup {Absent}
Ingested(f) ==
  { [id |-> 2 * k, variant_id |-> Keys[k].v, metric_date |-> Keys[k].d,
     impressions |-> f[k].impressions, clicks |-> f[k].clicks,
     sessions |-> SqlNull, revenue |-> SqlNull] :
       k \in {j \in 1..Len(Keys) : f[j] # Absent} }

InitAlloc ==
  /\ today = Day0
  /\ experiments = StoredExperiments
  /\ variants = StoredVariants
  /\ \E f \in [1..Len(Keys) -> MetricCounts \cup {Absent}] :
       /\ \A k \in 1..Len(Keys) : f[k] \in KeyCounts(k)
       /\ daily_metrics = Ingested(f)
       /\ raw_metrics = { [r EXCEPT !.id = r.id - 1] : r \in Ingested(f) }
  /\ allocation_history = {}
  /\ allocation_history_details = {}
  \* the allocation path only reads: the parameter plays no part in it
  /\ autocommit = TRUE
  /\ InitProcs
  /\ alloc_resp = NoResp
  /\ InitService
  /\ InitMw

NextAlloc ==
  \/ \E r \in AllocationRequests : GetAllocation(r[1], r[2])
  \/ AdvanceDay

SpecAlloc == InitAlloc /\ [][NextAlloc]_vars

(***************************************************************************)
(* GET /experiments/{id}/history                                           *)
(***************************************************************************)
\* ORDER BY m.metric_date DESC, v.is_control DESC, v.name
HistoryBefore(a, b) ==
  \/ a.metric_date > b.metric_date
  \/ /\ a.metric_date = b.metric_date
     /\ VariantBefore([is_control |-> a.is_control, name |-> a.variant_name],
                      [is_control |-> b.is_control, name |-> b.variant_name])

RECURSIVE OrderHistory(_)
OrderHistory(rows) ==
  IF rows = {} THEN <<>>
  ELSE LET first == CHOOSE a \in rows : \A b \in rows : ~HistoryBefore(b, a)
       IN <<first>> \o OrderHistory(rows \ {first})

\* MetricsQueries.SELECT_HISTORY: the daily rows of the experiment's
\* variants, newest date first.  The ratio column ctr is left out.
SELECT_HISTORY(experiment_id) ==
  LET joined == {mv \in daily_metrics \X variants :
                   /\ mv[2].id = mv[1].variant_id
                   /\ mv[2].experiment_id = experiment_id}
  IN OrderHistory({ [metric_date |-> mv[1].metric_date,
                     variant_id |-> mv[2].id,
                     variant_name |-> mv[2].name,
                     is_control |-> mv[2].is_control,
                     impressions |-> mv[1].impressions,
                     clicks |-> mv[1].clicks] : mv \in joined })

\* MetricsRepository.get_metrics_history
get_metrics_history(experiment_id) == SELECT_HISTORY(experiment_id)

\* AllocationHistoryQueries.SELECT_DETAILS_BY_HISTORY, as a set of rows
SELECT_DETAILS_BY_HISTORY(allocation_history_id) ==
  {d \in allocation_history_details :
     d.allocation_history_id = allocation_history_id}

RECURSIVE OrderRecords(_)
OrderRecords(rows) ==
  IF rows = {} THEN <<>>
  ELSE LET first == CHOOSE a \in rows :
                      \A b \in rows : b.computed_at <= a.computed_at
       IN <<first>> \o OrderRecords(rows \ {first})

\* AllocationHistoryRepository.get_history_by_experiment: the newest `limit`
\* records of the experiment (ORDER BY computed_at DESC LIMIT), each with
\* its detail rows.  No route and no service calls it.
get_history_by_experiment(experiment_id, limit) ==
  LET results == OrderRecords({h \in allocation_history :
                                 h.experiment_id = experiment_id})
      n == IF Len(results) < limit THEN Len(results) ELSE limit
  IN [i \in 1..n |->
        [record |-> results[i],
         allocations |-> SELECT_DETAILS_BY_HISTORY(results[i].id)]]

\* the route handler get_history(experiment_id): it takes no limit, and
\* answers 404 for an unknown experiment, else the experiment's daily
\* metrics rows
GetHistory(experiment_id) ==
  /\ IF ~ExperimentFound(experiment_id)
     THEN history_resp' = [status |-> 404]
     ELSE history_resp' =
            [status |-> 200,
             experiment_id |-> experiment_id,
             experiment_name |-> get_experiment_by_id(experiment_id).name,
             history |-> get_metrics_history(experiment_id)]
  /\ UNCHANGED <<today, dbvars, procvars, alloc_resp, np_random,
                 daily_allocation_limit, mwvars>>

\* DailyAllocationLimit(max_per_day=3000)
max_per_day == 3000

\* DailyAllocationLimit.check on the day `day`: the counters of other days
\* are dropped; at max_per_day the call is refused, else it is counted
DailyAllocationLimit_check(calls, day) ==
  LET kept == [d \in (DOMAIN calls) \cap {day} |-> calls[d]]
      current == IF day \in DOMAIN kept THEN kept[day] ELSE 0
  IN IF current >= max_per_day
     THEN [allowed |-> FALSE, remaining |-> 0, calls |-> kept]
     ELSE [allowed |-> TRUE, remaining |-> max_per_day - current - 1,
           calls |-> [d \in {day} |-> current + 1]]

\* check_daily_allocation_limit: the status it answers with, 429 for a
\* refused call.  No route, dependency or middleware calls it.
check_daily_allocation_limit(calls, day) ==
  IF DailyAllocationLimit_check(calls, day).allowed THEN 200 ELSE 429

\* the read-only routes over one warehouse: experiment e1 is active and has
\* one daily row per variant, experiment e2 has since been paused with
\* ExperimentQueries.UPDATE_STATUS and has no metrics
PausedExperiments ==
  { IF e.id = "e2" THEN [e EXCEPT !.status = "paused"] ELSE e :
      e \in StoredExperiments }
ApiCounts ==
  [k \in 1..Len(Keys) |->
     IF Keys[k].d = Day0 - 14
     THEN [impressions |-> 250, clicks |-> 5, sessions |-> 20, revenue |-> 0]
     ELSE Absent]

InitApi ==
  /\ today = Day0
  /\ experiments = PausedExperiments
  /\ variants = StoredVariants
  /\ daily_metrics = Ingested(ApiCounts)
  /\ raw_metrics = { [r EXCEPT !.id = r.id - 1] : r \in Ingested(ApiCounts) }
  /\ allocation_history = {}
  /\ allocation_history_details = {}
  /\ autocommit = TRUE
  /\ InitProcs
  /\ alloc_resp = NoResp
  /\ InitService
  /\ InitMw

NextApi ==
  \/ \E r \in AllocationRequests : GetAllocation(r[1], r[2])
  \/ \E e \in AllocationIds : GetHistory(e)
  \/ AdvanceDay

SpecApi == InitApi /\ [][NextApi]_vars

Next ==
  \/ \E p \in Procs, e \in ExperimentIds, d \in MetricDates, b \in Batches :
       StartRecordMetrics(p, e, d, b)
  \/ \E p \in Procs : InsertRaw(p)
  \/ \E p \in Procs : UpsertDaily(p)
  \/ \E p \in Procs : Commit(p)
  \/ \E p \in Procs : StorageError(p)

Spec == Init /\ [][Next]_vars

(***************************************************************************)
(* Properties                                                              *)
(***************************************************************************)
\* the allocation call that has just answered 200 in this step
Answered == alloc_resp' # alloc_resp /\ alloc_resp'.status = 200

Percentages(r) ==
  [i \in 1..Len(r.allocations) |-> r.allocations[i].allocation_percentage]

PercentageOf(r) ==
  { <<r.allocations[i].variant_name, r.allocations[i].allocation_percentage>> :
      i \in 1..Len(r.allocations) }

CountsOf(r) ==
  { <<r.allocations[i].variant_name, r.allocations[i].impressions,
      r.allocations[i].clicks>> : i \in 1..Len(r.allocations) }

\* some variant of the aggregation has fewer than MIN_IMPRESSIONS impressions
Insufficient(rows) ==
  rows = <<>> \/ \E i \in 1..Len(rows) : rows[i].impressions < min_impressions

DailyFor(table, variant_id, metric_date) ==
  {t \in table : t.variant_id = variant_id /\ t.metric_date = metric_date}

\* the INSERT of handler p's current entry is committed in this step
RawWritten(p) == pc'[p] # pc[p] /\ raw_metrics' # raw_metrics

\* the MERGE of handler p's current entry is committed in this step
DailyWritten(p) ==
  IF autocommit
  THEN pc[p] = "upsert_daily" /\ pc'[p] = "commit"
  ELSE pc[p] = "commit" /\ raw_metrics' # raw_metrics

Thm_C2 ==
  [][\A p \in Procs :
       LET m == req[p].metrics[req[p].k]
           v == CurVariantId(p)
           d == req[p].date
           before == DailyFor(daily_metrics, v, d)
           after == DailyFor(daily_metrics', v, d)
       IN /\ RawWritten(p) =>
               /\ raw_metrics \subseteq raw_metrics'
               /\ Cardinality(raw_metrics') = Cardinality(raw_metrics) + 1
               /\ \A r \in raw_metrics' \ raw_metrics :
                    /\ r.variant_id = v /\ r.metric_date = d
                    /\ r.impressions = m.impressions /\ r.clicks = m.clicks
          /\ DailyWritten(p) =>
               /\ Cardinality(after) = 1
               /\ \A t \in after :
                    t.impressions = m.impressions /\ t.clicks = m.clicks
               /\ (\E t \in before :
                     t.impressions = m.impressions /\ t.clicks = m.clicks)
                    => daily_metrics' = daily_metrics
  ]_vars

\* C2 witness: the same (date, variant, counts) was recorded twice: two
\* RawMetric rows with equal counts and one DailyMetric row holding them
Wit_C2 ==
  /\ \A p \in Procs : pc[p] = "idle"
  /\ \E t \in daily_metrics :
       LET raws == DailyFor(raw_metrics, t.variant_id, t.metric_date)
       IN /\ Cardinality(raws) = 2
          /\ \A r \in raws :
               r.impressions = t.impressions /\ r.clicks = t.clicks
          /\ DailyFor(daily_metrics, t.variant_id, t.metric_date) = {t}

\* C3 as stated: when the MERGE of a record_metrics call is committed while
\* another call for the same (variant, date) is in flight, there is exactly
\* one DailyMetric row for that (variant, date), its impressions, clicks,
\* sessions and revenue are those of the committing (last) call, and no
\* RawMetric row is lost
CE_C3 ==
  [][\A p \in Procs :
       (/\ DailyWritten(p)
        /\ \E q \in Procs \ {p} :
             /\ pc[q] # "idle"
             /\ req[q].date = req[p].date
             /\ CurVariantId(q) = CurVariantId(p))
         => LET m == req[p].metrics[req[p].k]
                after == DailyFor(daily_metrics', CurVariantId(p),
                                  req[p].date)
            IN /\ Cardinality(after) = 1
               /\ \A t \in after :
                    /\ t.impressions = m.impressions
                    /\ t.clicks = m.clicks
                    /\ t.sessions = <<m.sessions>>
                    /\ t.revenue = <<m.revenue>>
               /\ raw_metrics \subseteq raw_metrics'
  ]_vars

\* C4 as stated: a record_metrics call that ends in failure has committed no
\* RawMetric row and no DailyMetric row of its batch, and one that ends with
\* 201 has committed a RawMetric row for every entry
CE_C4 ==
  [][\A p \in Procs :
       (pc[p] # "idle" /\ pc'[p] = "idle") =>
         IF resp'[p].status = 201
         THEN /\ Cardinality(req[p].raw_ids) = Len(req[p].metrics)
              /\ \A id \in req[p].raw_ids :
                   \E r \in raw_metrics' : r.id = id
         ELSE \A id \in req[p].raw_ids :
                /\ ~\E r \in raw_metrics' : r.id = id
                /\ ~\E t \in daily_metrics' : t.id = id + 1
  ]_vars

\* C5 as stated: every allocation computation that returns a response
\* inserts exactly one AllocationRecord and one AllocationDetail per variant
CE_C5 ==
  [][Answered =>
       /\ Cardinality(allocation_history')
            = Cardinality(allocation_history) + 1
       /\ Cardinality(allocation_history_details')
            = Cardinality(allocation_history_details)
                + Len(alloc_resp'.allocations)
  ]_vars

CE_C9 ==
  [][(/\ alloc_resp.status = 200
      /\ alloc_resp'.status = 200
      /\ alloc_resp'.experiment_id = alloc_resp.experiment_id
      /\ alloc_resp'.requested = alloc_resp.requested
      /\ alloc_resp'.day = alloc_resp.day
      /\ daily_metrics' = daily_metrics
      /\ CountsOf(alloc_resp') = CountsOf(alloc_resp))
       => PercentageOf(alloc_resp') = PercentageOf(alloc_resp)
  ]_vars

\* 100/N rounded to two decimals, the residue on one bucket
UniformSplit(n, pcts) ==
  LET share == RoundHalfEven(10000, n)
  IN /\ SumSeq(pcts) = 10000
     /\ \A i \in 1..n : pcts[i] \in {share, share + (10000 - n * share)}

\* C10 as stated: when every variant has zero impressions the allocation is
\* the uniform split
CE_C10 ==
  (/\ alloc_resp.status = 200
   /\ \A i \in 1..Len(alloc_resp.allocations) :
        alloc_resp.allocations[i].impressions = 0)
    => UniformSplit(Len(alloc_resp.allocations), Percentages(alloc_resp))

(***************************************************************************)
(* Rate limiting                                                           *)
(***************************************************************************)
\* the limit configured for a key of the table, and its window in ticks
ConfigOf(k) == RATE_LIMITS(k[2])
WindowTicks(k) == ConfigOf(k).window_seconds * TicksPerSecond
\* calls recorded under key k in the window of length window_seconds that
\* ends at t: t - window_seconds < ts <= t
InWindow(k, t) ==
  { i \in 1..Len(rate_limiter[k]) :
      /\ rate_limiter[k][i][1] > t - WindowTicks(k)
      /\ rate_limiter[k][i][1] <= t }
\* the handlers whose request under key k has just been admitted by the step
AdmittedBy(k) ==
  { p \in Procs : /\ mw_pc[p] = "idle" /\ mw_pc'[p] = "call_next"
                  /\ mw_req'[p].limited
                  /\ full_key(mw_req'[p].request) = k }
\* the outcome is_allowed would give a call on k now
Outcome(table, k) ==
  is_allowed(table, k, ConfigOf(k).max_requests,
             ConfigOf(k).window_seconds, clock).allowed

\* C11: for every key, every window of length window_seconds holds at most
\* max_requests admitted calls; a call on a key is admitted exactly when
\* fewer than max_requests admitted calls of that key lie in the window
\* ending now, an admitted call is recorded at the current time behind those
\* calls, and the lists of the other keys neither change nor count.
Thm_C11 ==
  /\ [](\A k \in RateKeys :
          /\ \A t \in 0..MaxClock :
               Cardinality(InWindow(k, t)) <= ConfigOf(k).max_requests
          /\ Outcome(rate_limiter, k) <=>
               Cardinality(InWindow(k, clock)) < ConfigOf(k).max_requests
          /\ Outcome(rate_limiter, k) <=>
               Outcome([j \in RateKeys |->
                          IF j = k THEN rate_limiter[k] ELSE <<>>], k))
  /\ [][\A k \in RateKeys :
          AdmittedBy(k) # {} =>
            /\ Cardinality(InWindow(k, clock)) < ConfigOf(k).max_requests
            /\ rate_limiter'[k] =
                 Append(SelectSeq(rate_limiter[k],
                          LAMBDA e : e[1] > clock - WindowTicks(k)),
                        <<clock, 1>>)
            /\ \A j \in RateKeys \ {k} : rate_limiter'[j] = rate_limiter[j]]_vars

\* after the first window has passed a bucket is full of calls admitted in
\* the current window, while the other key has calls recorded too
Wit_C11 ==
  \E k \in RateKeys :
    /\ ~Outcome(rate_limiter, k)
    /\ rate_limiter[k][1][1] >= WindowTicks(k)
    /\ \E j \in RateKeys \ {k} : rate_limiter[j] # <<>>

\* the names of the headers a response carries
HeaderNames(response) == {h[1] : h \in response.headers}

\* C12: a response sent for a request the rate limiter blocked (the only
\* responses sent without the route handler having run) has status 429 and
\* carries X-RateLimit-Limit, X-RateLimit-Remaining = 0, X-RateLimit-Reset
\* and Retry-After.
CE_C12 ==
  (http_resp # NoHttpResp /\ ~http_resp.handled) =>
    /\ http_resp.status = 429
    /\ {"X-RateLimit-Limit", "X-RateLimit-Reset", "Retry-After"}
         \subseteq HeaderNames(http_resp)
    /\ <<"X-RateLimit-Remaining", 0>> \in http_resp.headers

\* the handlers waiting in call_next whose request was admitted under key k
InFlight(k) ==
  { p \in Procs : /\ mw_pc[p] = "call_next" /\ mw_req[p].limited
                  /\ full_key(mw_req[p].request) = k }
\* the entries of a key's list younger than one window at time t
Live(entries, k, t) ==
  SelectSeq(entries, LAMBDA e : e[1] > t - WindowTicks(k))
IsPrefix(a, b) ==
  Len(a) <= Len(b) /\ \A i \in 1..Len(a) : a[i] = b[i]

\* C13: however the requests of concurrent handlers interleave, the requests
\* in flight that were admitted under one key within the current window are
\* at most max_requests and each has its own entry in the key's list, and no
\* step removes or reorders an entry that is still within the window.
Thm_C13 ==
  /\ [](\A k \in RateKeys :
          LET recent == { p \in InFlight(k) :
                            mw_req[p].ts > clock - WindowTicks(k) }
          IN /\ Cardinality(recent) <= ConfigOf(k).max_requests
             /\ \A t \in 0..MaxClock :
                  Cardinality({p \in recent : mw_req[p].ts = t}) <=
                    Cardinality({i \in 1..Len(rate_limiter[k]) :
                                   rate_limiter[k][i] = <<t, 1>>}))
  /\ [][\A k \in RateKeys :
          IsPrefix(Live(rate_limiter[k], k, clock),
                   Live(rate_limiter'[k], k, clock))]_vars

\* two handlers are in flight with requests admitted under the same key in
\* the same window, and the key's bucket is full
Wit_C13 ==
  \E k \in RateKeys :
    /\ Cardinality(InFlight(k)) = 2
    /\ \A p \in InFlight(k) :
         mw_req[p].ts > clock - WindowTicks(k)
    /\ ~Outcome(rate_limiter, k)

\* C14: a request to an exempt path is always passed on to the route
\* handler, whatever the buckets hold, and passing it on changes neither the
\* rate-limit table nor the limits of any request; the response it gets is
\* the handler's, without rate-limit headers.
Thm_C14 ==
  /\ [](\A p \in Procs, request \in HttpRequests :
          (request.path \in ExemptPaths /\ mw_pc[p] = "idle"
             /\ (p = "p2" => mw_pc["p1"] # "idle"))
            => ENABLED (Dispatch(p, request) /\ mw_pc'[p] = "call_next"))
  /\ [][\A p \in Procs, request \in HttpRequests :
          (request.path \in ExemptPaths /\ Dispatch(p, request)) =>
            /\ mw_pc'[p] = "call_next"
            /\ rate_limiter' = rate_limiter
            /\ http_resp' = http_resp]_vars
  /\ [][\A p \in Procs :
          (mw_pc[p] = "call_next" /\ mw_req[p].request.path \in ExemptPaths
             /\ mw_pc'[p] = "idle") =>
            /\ http_resp'.handled /\ http_resp'.headers = {}
            /\ rate_limiter' = rate_limiter]_vars

\* an exempt request is on its way to the route handler while a bucket of the
\* same client is full
Wit_C14 ==
  \E p \in Procs :
    /\ mw_pc[p] = "call_next"
    /\ mw_req[p].request.path \in ExemptPaths
    /\ \E k \in RateKeys :
         /\ k[1] = get_rate_limit_key(mw_req[p].request)
         /\ rate_limiter[k] # <<>>
         /\ ~Outcome(rate_limiter, k)

(***************************************************************************)
(* Experiment creation                                                     *)
(***************************************************************************)
\* the variant rows stored for an experiment
VariantsOf(experiment_id) ==
  {v \in variants : v.experiment_id = experiment_id}
CreateSteps == {"insert_experiment", "insert_variant", "commit_create"}

CE_C18 ==
  \A p \in Procs :
    "detail" \in DOMAIN resp[p] =>
      /\ resp[p].detail[1] = "Experiment '" => resp[p].status = 404
      /\ resp[p].detail[1] = "Variant '" => resp[p].status = 400
      /\ resp[p].detail[1] = "validation error" => resp[p].status = 422

(***************************************************************************)
(* Aggregation window and algorithm name                                   *)
(***************************************************************************)
\* the value a variant's DailyMetric row of one date holds, 0 without a row
FieldOn(variant_id, metric_date, f) ==
  LET rows == DailyFor(daily_metrics, variant_id, metric_date)
  IN IF rows = {} THEN 0 ELSE (CHOOSE r \in rows : TRUE)[f]
\* the total over the window_days dates before today, day by day
DaySum(variant_id, window_days, f) ==
  SumSeq([k \in 1..window_days |-> FieldOn(variant_id, today - k, f)])
AggregationWindows == {7, default_window_days, max_window_days}

\* C19: the aggregation has exactly one row for each variant of the
\* experiment, and the row's impressions and clicks are the totals of the
\* variant's daily rows of the window_days dates before today: today's and
\* later rows and rows older than today - window_days add nothing, and a
\* variant without rows in the window has zeros.  The counts an allocation
\* response reports are those totals for its window.
Thm_C19 ==
  /\ [](\A e \in {x.id : x \in experiments}, w \in AggregationWindows :
          LET rows == get_metrics_for_allocation(e, w)
          IN /\ Len(rows) = Cardinality(VariantsOf(e))
             /\ {rows[i].variant_id : i \in 1..Len(rows)}
                  = {v.id : v \in VariantsOf(e)}
             /\ \A i \in 1..Len(rows) :
                  /\ rows[i].impressions
                       = DaySum(rows[i].variant_id, w, "impressions")
                  /\ rows[i].clicks = DaySum(rows[i].variant_id, w, "clicks"))
  /\ [][Answered =>
          CountsOf(alloc_resp') =
            { <<v.name, DaySum(v.id, alloc_resp'.window_days, "impressions"),
                DaySum(v.id, alloc_resp'.window_days, "clicks")>> :
                v \in VariantsOf(alloc_resp'.experiment_id) }]_vars

\* an allocation was answered over the 30 days before Day0 + 1 while the
\* warehouse holds a row dated that day and a row 31 days old besides a
\* counted row, and a variant has no row in the window
Wit_C19 ==
  /\ alloc_resp.status = 200
  /\ alloc_resp.experiment_id = "e1"
  /\ alloc_resp.day = today
  /\ alloc_resp.window_days = max_window_days
  /\ today = Day0 + 1
  /\ DailyFor(daily_metrics, "v2", today) # {}
  /\ DailyFor(daily_metrics, "v1", today - max_window_days - 1) # {}
  /\ DailyFor(daily_metrics, "v1", Day0 - 14) # {}
  /\ <<"variant_a", 0, 0>> \in CountsOf(alloc_resp)

\* C20: the algorithm of an allocation response is "thompson_sampling", and
\* "thompson_sampling (fallback: prior only)" when the fallback was used; a
\* name is the sequence of the pieces of its f-string.
CE_C20 ==
  alloc_resp.status = 200 =>
    alloc_resp.algorithm =
      IF alloc_resp.used_fallback
      THEN <<"thompson_sampling (fallback: prior only)">>
      ELSE <<"thompson_sampling">>

(***************************************************************************)
(* History, status and limits of the read-only routes                      *)
(***************************************************************************)
\* C21 as stated: a 200 response of GET /experiments/{id}/history lists the
\* newest AllocationRecords of that experiment with their details, as
\* get_history_by_experiment returns them
HistoryLimit == 30
CE_C21 ==
  history_resp.status = 200 =>
    history_resp.history =
      get_history_by_experiment(history_resp.experiment_id, HistoryLimit)

\* C22 as stated: an allocation is computed and answered 200 only for an
\* experiment whose status is active (a paused or archived one is refused
\* with 400)
CE_C22 ==
  alloc_resp.status = 200 =>
    \A e \in experiments :
      e.id = alloc_resp.experiment_id => e.status = "active"

\* C23 as stated: every allocation that is served has passed the daily
\* limit, i.e. DailyAllocationLimit.check admitted it and counted it for
\* the day
CE_C23 ==
  [][(alloc_resp' # alloc_resp /\ alloc_resp'.status = 200) =>
       LET c == DailyAllocationLimit_check(daily_allocation_limit, today)
       IN /\ check_daily_allocation_limit(daily_allocation_limit, today)
               = 200
          /\ daily_allocation_limit' = c.calls
  ]_vars

\* C25 as stated: the sampler's generator is local to one allocation
\* computation, so a computation leaves the process-global generator, from
\* which the next request would draw, as it found it
CE_C25 == [][Answered => np_random' = np_random]_vars

(***************************************************************************)
(* Posterior parameters of the aggregates that ingestion can produce       *)
(***************************************************************************)
\* the aggregation of an experiment over a window and the arms built from it
ArmsOf(experiment_id, window_days) ==
  convert_to_variant_data(
    get_metrics_for_allocation(experiment_id, window_days),
    get_experiment_by_id(experiment_id).optimization_target, FALSE)

CallOn(k) ==
  is_allowed(rate_limiter, k, ConfigOf(k).max_requests,
             ConfigOf(k).window_seconds, clock)

\* C26: an admitted call returns max_requests minus the number of admitted
\* calls of the key in the current window, itself included, so the i-th
\* admitted call of a window gets max_requests - i; the value is never
\* negative, and a blocked call returns 0
Thm_C26 ==
  /\ [](\A k \in RateKeys :
          IF CallOn(k).allowed
          THEN /\ CallOn(k).remaining =
                    ConfigOf(k).max_requests
                      - (Cardinality(InWindow(k, clock)) + 1)
               /\ CallOn(k).remaining >= 0
          ELSE CallOn(k).remaining = 0)
  /\ [][\A k \in RateKeys : \A p \in AdmittedBy(k) :
          /\ mw_req'[p].remaining =
               ConfigOf(k).max_requests - Len(rate_limiter'[k])
          /\ \A i \in 1..Len(rate_limiter'[k]) :
               rate_limiter'[k][i][1] > clock - WindowTicks(k)
          /\ mw_req'[p].remaining >= 0]_vars

\* the first and the second admitted call of one window are in flight: the
\* first got max_requests - 1, the second max_requests - 2
Wit_C26 ==
  \E k \in RateKeys :
    /\ InFlight(k) = Procs
    /\ Len(rate_limiter[k]) = 2
    /\ mw_req["p1"].remaining = ConfigOf(k).max_requests - 1
    /\ mw_req["p2"].remaining = ConfigOf(k).max_requests - 2
    /\ mw_req["p2"].ts < mw_req["p1"].ts + WindowTicks(k)

\* the endpoint pattern and limit expected for each request of
\* PatternRequests: the identifier after "experiments" is replaced, the one
\* that is the whole path is not and falls under the default
Expected(request) ==
  IF request.path[1] \in UuidParts
  THEN [pattern |-> <<"GET", request.path>>, max_requests |-> LimitScale + 3]
  ELSE IF Len(request.path) = 3
  THEN [pattern |->
          <<"GET", <<"experiments", "{experiment_id}", "allocation">>>>,
        max_requests |-> LimitScale + 1]
  ELSE [pattern |-> <<"GET", <<"experiments", "{experiment_id}">>>>,
        max_requests |-> LimitScale + 4]

\* C28, amended: every identifier part of the path except the first part is
\* replaced by {experiment_id}; requests of one client to one route for
\* different experiments are counted in one bucket under that route's
\* configured limit, and a pattern without an entry, such as a path whose
\* first part is an identifier, gets the default
Thm_C28 ==
  /\ [](\A request \in PatternRequests :
          /\ get_endpoint_pattern(request) = Expected(request).pattern
          /\ RATE_LIMITS(get_endpoint_pattern(request)).max_requests
               = Expected(request).max_requests
          /\ Len(rate_limiter[<<"10.0.0.2", Expected(request).pattern>>])
               <= Expected(request).max_requests)
  /\ [][\A p \in Procs, request \in PatternRequests :
          (Dispatch(p, request) /\ mw_pc'[p] = "call_next") =>
            LET k == <<"10.0.0.2", Expected(request).pattern>>
            IN /\ rate_limiter'[k] = Append(rate_limiter[k], <<clock, 1>>)
               /\ \A j \in RateKeys \ {k} : rate_limiter'[j] = rate_limiter[j]
               /\ mw_req'[p].max_requests = Expected(request).max_requests
               /\ mw_req'[p].remaining =
                    Expected(request).max_requests - Len(rate_limiter'[k])
       ]_vars

\* the allocation requests for two experiments are in flight and have filled
\* the one bucket of the route, while the path that is an identifier has its
\* own bucket
Wit_C28 ==
  /\ mw_pc = [p \in Procs |-> "call_next"]
  /\ mw_req["p1"].request.path # mw_req["p2"].request.path
  /\ \A p \in Procs : Len(mw_req[p].request.path) = 3
  /\ full_key(mw_req["p1"].request) = full_key(mw_req["p2"].request)
  /\ ~CallOn(full_key(mw_req["p1"].request)).allowed
  /\ \E k \in RateKeys :
       /\ Len(k[2][2]) = 1 /\ k[2][2][1] \in UuidParts
       /\ rate_limiter[k] # <<>>

\* C28 as stated: every identifier part of a path is replaced, so no bucket
\* is kept under a path that holds an identifier
CE_C28 ==
  \A k \in RateKeys :
    rate_limiter[k] # <<>> =>
      \A i \in 1..Len(k[2][2]) : k[2][2][i] \notin UuidParts

\* the request handed to dispatch in this step was blocked on key k
BlockedOn(k) ==
  /\ ~CallOn(k).allowed
  /\ \E p \in Procs, request \in HttpRequests :
       /\ ~IsExempt(request) /\ full_key(request) = k
       /\ Dispatch(p, request)
\* would a call on k at time t be admitted, given the table
AdmitsAt(table, k, t) ==
  is_allowed(table, k, ConfigOf(k).max_requests,
             ConfigOf(k).window_seconds, t).allowed

\* C29: a blocked call leaves the key's list as it was apart from the
\* expired entries it drops, and leaves the other keys alone; at every later
\* time the key is admitted or blocked as if the blocked call had not been
\* made; and a key with no admitted call within the last window is admitted
Thm_C29 ==
  /\ [][\A k \in RateKeys :
          BlockedOn(k) =>
            /\ rate_limiter'[k] = Live(rate_limiter[k], k, clock)
            /\ \A j \in RateKeys \ {k} : rate_limiter'[j] = rate_limiter[j]
            /\ \A t \in clock..(clock + WindowTicks(k)) :
                 AdmitsAt(rate_limiter', k, t) <=> AdmitsAt(rate_limiter, k, t)
            /\ AdmitsAt(rate_limiter', k,
                        rate_limiter[k][Len(rate_limiter[k])][1]
                          + WindowTicks(k))]_vars
  /\ [](\A k \in RateKeys :
          (\A i \in 1..Len(rate_limiter[k]) :
             rate_limiter[k][i][1] <= clock - WindowTicks(k))
            => CallOn(k).allowed)

\* a request was blocked some time after the call that filled the bucket,
\* its response is the last one sent, and the key's list still holds only
\* the admitted calls
Wit_C29 ==
  \E k \in RateKeys :
    /\ http_resp # NoHttpResp /\ ~http_resp.handled
    /\ ~CallOn(k).allowed
    /\ Len(rate_limiter[k]) = ConfigOf(k).max_requests
    /\ clock > rate_limiter[k][Len(rate_limiter[k])][1]

\* C30 as stated: the reset value R returned to a blocked request lies in
\* 0..window_seconds, and a request on the same key R seconds later, with
\* no request in between, is admitted
CE_C30 ==
  [][\A p \in Procs, request \in HttpRequests :
       LET k == full_key(request)
           c == RATE_LIMITS(get_endpoint_pattern(request))
           r == is_allowed(rate_limiter, k, c.max_requests,
                           c.window_seconds, clock)
       IN (~IsExempt(request) /\ Dispatch(p, request) /\ ~r.allowed) =>
            /\ 0 <= r.reset /\ r.reset <= c.window_seconds
            /\ is_allowed(rate_limiter', k, c.max_requests,
                          c.window_seconds,
                          clock + r.reset * TicksPerSecond).allowed
  ]_vars

(***************************************************************************)
(* Reported window                                                         *)
(***************************************************************************)
\* by the daily rows, the window_days dates before today leave a variant of
\* the experiment below MIN_IMPRESSIONS
Short(experiment_id, window_days) ==
  \E v \in VariantsOf(experiment_id) :
    DaySum(v.id, window_days, "impressions") < min_impressions

====
